---- MODULE Spec2Model ----
(***************************************************************************)
(* Backend process supervisor of episensor/app-framework.                  *)
(*                                                                         *)
(* Two variants live in the repository:                                    *)
(*  - the command variant (app-templates/basic-desktop-app/src-tauri):     *)
(*    ServerState { process: Mutex<Option<Child>> } with the commands      *)
(*    start_backend_server, stop_backend_server, check_server_status and   *)
(*    the setup / window-close hooks of main();                            *)
(*  - the polling variant (desktop/rust-templates): a thread that spawns   *)
(*    node, polls the health endpoint and sets the backend_ready flag the  *)
(*    main thread spins on.                                                *)
(* Spec is the command variant, PollSpec / PollFair the polling variant.   *)
(***************************************************************************)
EXTENDS Integers, FiniteSets, Sequences, TLC

\* ------------------------------------------------------------------ bounds
\* Processes the OS lets the supervisor create in one run: once reached,
\* Command::spawn() is rejected.
MaxSpawn == 2
\* Webview invocations that can be in flight at once (besides the main thread).
NumWorkers == 1

\* ------------------------------------------------------- command variant
Main == 0
Workers == 1..NumWorkers
Threads == {Main} \cup Workers
Pids == 1..MaxSpawn
\* Option<Child>::None
None == 0
\* no thread holds the mutex
Free == -1
\* curl reached no listener on the health port (no HTTP status at all)
Refused == 0

\* The HTTP statuses a listening backend can answer the health request with.
HttpStatuses == {200, 204, 404, 500}

VARIABLES
    process,      \* ServerState.process: None or the recorded child's pid
    lockHolder,   \* the thread inside state.process.lock(), or Free
    poisoned,     \* the mutex was dropped by a panicking thread
    pc,           \* each thread's position
    child,        \* each thread's local `child`
    alive,        \* pids the OS still runs
    spawned,      \* number of processes created so far (pids 1..spawned)
    listener,     \* the pid bound to the health port, or None
    listened,     \* pids that bound the health port at some time
    untracked,    \* pids taken out of the record by stop_backend_server
    closed,       \* the CloseRequested handler has run
    closing,      \* the main thread is inside the CloseRequested handler
    lastOp,       \* the last return of start/stop: the result, the pid it spawned
                  \* or killed, the record it left and whether that process ran
    prevOp,       \* the return before lastOp
    status        \* the last return of check_server_status

cmdVars == <<process, lockHolder, poisoned, pc, child, alive, spawned, listener,
             listened, untracked, closed, closing, lastOp, prevOp, status>>

\* No command has returned yet.
NoOp == [op |-> "none", kind |-> "none", msg |-> "", pid |-> None, rec |-> None,
         live |-> TRUE]
NoPrev == [op |-> "none", kind |-> "none", rec |-> None]
NoStatus == [resp |-> Refused, kind |-> "none", val |-> FALSE]

\* What prevOp keeps of a return.
Brief(r) == [op |-> r.op, kind |-> r.kind, rec |-> r.rec]

\* main.rs setup: app.manage(ServerState { process: Mutex::new(None) })
CmdInit ==
    /\ process = None
    /\ lockHolder = Free
    /\ poisoned = FALSE
    /\ pc = [t \in Threads |-> IF t = Main THEN "setup" ELSE "idle"]
    /\ child = [t \in Threads |-> None]
    /\ alive = {}
    /\ spawned = 0
    /\ listener = None
    /\ listened = {}
    /\ untracked = {}
    /\ closed = FALSE
    /\ closing = FALSE
    /\ lastOp = NoOp
    /\ prevOp = NoPrev
    /\ status = NoStatus

\* The host runs its event loop: no panic on the main thread, window not closed.
HostRunning == ~closed /\ pc[Main] # "panicked"

\* A command returns to its caller: the MutexGuard is dropped, the result is
\* handed back (Ok/Err with its message).
Return(t, op, kind, msg, pid, rec) ==
    /\ lockHolder' = Free
    /\ pc' = [pc EXCEPT ![t] = "idle"]
    /\ prevOp' = Brief(lastOp)
    /\ lastOp' = [op |-> op, kind |-> kind, msg |-> msg, pid |-> pid, rec |-> rec,
                  live |-> (rec = None \/ rec \in alive)]
    /\ IF t = Main /\ closing
         THEN closed' = TRUE /\ closing' = FALSE
         ELSE UNCHANGED <<closed, closing>>

\* A panic while the guard is held: unwinding drops the guard and poisons the mutex.
Panic(t, op) ==
    /\ lockHolder' = IF lockHolder = t THEN Free ELSE lockHolder
    /\ poisoned' = (poisoned \/ lockHolder = t)
    /\ pc' = [pc EXCEPT ![t] = "panicked"]
    /\ prevOp' = Brief(lastOp)
    /\ lastOp' = [op |-> op, kind |-> "panic", msg |-> "", pid |-> None, rec |-> process,
                  live |-> (process = None \/ process \in alive)]
    /\ UNCHANGED <<closed, closing>>


\* ------------------------------------------------ callers (main.rs, webview)
\* main.rs setup: "Start the backend server automatically".
Setup ==
    /\ pc[Main] = "setup"
    /\ pc' = [pc EXCEPT ![Main] = "start_lock"]
    /\ UNCHANGED <<process, lockHolder, poisoned, child, alive, spawned, listener,
                   listened, untracked, closed, closing, lastOp, prevOp, status>>

\* invoke_handler: the webview invokes start_backend_server.
InvokeStart(t) ==
    /\ t \in Workers /\ HostRunning /\ pc[t] = "idle"
    /\ pc' = [pc EXCEPT ![t] = "start_lock"]
    /\ UNCHANGED <<process, lockHolder, poisoned, child, alive, spawned, listener,
                   listened, untracked, closed, closing, lastOp, prevOp, status>>

\* invoke_handler: the webview invokes stop_backend_server.
InvokeStop(t) ==
    /\ t \in Workers /\ HostRunning /\ pc[t] = "idle"
    /\ pc' = [pc EXCEPT ![t] = "stop_lock"]
    /\ UNCHANGED <<process, lockHolder, poisoned, child, alive, spawned, listener,
                   listened, untracked, closed, closing, lastOp, prevOp, status>>

\* A CloseRequested handler that lets the window close without calling
\* stop_backend_server.
CloseWithoutStop ==
    /\ HostRunning /\ pc[Main] = "idle"
    /\ closed' = TRUE
    /\ UNCHANGED <<process, lockHolder, poisoned, pc, child, alive, spawned, listener,
                   listened, untracked, closing, lastOp, prevOp, status>>

\* on_window_event: CloseRequested => let _ = stop_backend_server(state).
CloseRequested ==
    /\ HostRunning /\ pc[Main] = "idle"
    /\ closing' = TRUE
    /\ pc' = [pc EXCEPT ![Main] = "stop_lock"]
    /\ UNCHANGED <<process, lockHolder, poisoned, child, alive, spawned, listener,
                   listened, untracked, closed, lastOp, prevOp, status>>

\* ------------------------------------------------------ start_backend_server
\* StartLock without mutual exclusion: the guard is taken while another thread
\* holds it.
StartLockNoWait(t) ==
    /\ pc[t] = "start_lock"
    /\ lockHolder' = t
    /\ pc' = [pc EXCEPT ![t] = "start_check"]
    /\ UNCHANGED <<process, poisoned, child, alive, spawned, listener,
                   listened, untracked, closed, closing, lastOp, prevOp, status>>

\* let mut process = state.process.lock().unwrap();
StartLock(t) ==
    /\ pc[t] = "start_lock"
    /\ lockHolder = Free
    /\ IF poisoned
         THEN /\ Panic(t, "start")
              /\ UNCHANGED <<process, child, alive, spawned, listener, listened,
                             untracked, status>>
         ELSE /\ lockHolder' = t
              /\ pc' = [pc EXCEPT ![t] = "start_check"]
              /\ UNCHANGED <<process, poisoned, child, alive, spawned, listener,
                             listened, untracked, closed, closing, lastOp, prevOp, status>>

\* StartCheck without the is_some() test: start always goes on to spawn.
StartCheckNoGuard(t) ==
    /\ pc[t] = "start_check"
    /\ pc' = [pc EXCEPT ![t] = "start_resolve"]
    /\ UNCHANGED <<process, lockHolder, poisoned, child, alive, spawned,
                   listener, listened, untracked, closed, closing, lastOp,
                   prevOp, status>>

\* if process.is_some() { return Ok("Server already running") }
StartCheck(t) ==
    /\ pc[t] = "start_check"
    /\ IF process # None
         THEN /\ Return(t, "start", "Ok", "Server already running", None, process)
              /\ UNCHANGED <<process, poisoned, child, alive, spawned, listener,
                             listened, untracked, status>>
         ELSE /\ pc' = [pc EXCEPT ![t] = "start_resolve"]
              /\ UNCHANGED <<process, lockHolder, poisoned, child, alive, spawned,
                             listener, listened, untracked, closed, closing, lastOp,
                             prevOp, status>>

\* app.path().resource_dir().expect("failed to resolve resource directory")
StartResolve(t) ==
    /\ pc[t] = "start_resolve"
    /\ \E resolved \in BOOLEAN :
         IF resolved
           THEN /\ pc' = [pc EXCEPT ![t] = "start_exists"]
                /\ UNCHANGED <<process, lockHolder, poisoned, child, alive, spawned,
                               listener, listened, untracked, closed, closing, lastOp,
                               prevOp, status>>
           ELSE /\ Panic(t, "start")
                /\ UNCHANGED <<process, child, alive, spawned, listener, listened,
                               untracked, status>>

\* StartExists with the test placed after the spawn and the recording: a child
\* was created and recorded when the missing binary is reported.
StartExistsLate(t) ==
    /\ pc[t] = "start_exists"
    /\ \E exists \in BOOLEAN :
         IF exists \/ spawned >= MaxSpawn
           THEN /\ pc' = [pc EXCEPT ![t] = "start_spawn"]
                /\ UNCHANGED <<process, lockHolder, poisoned, child, alive, spawned,
                               listener, listened, untracked, closed, closing, lastOp,
                               prevOp, status>>
           ELSE /\ spawned' = spawned + 1
                /\ alive' = alive \cup {spawned + 1}
                /\ process' = spawned + 1
                /\ Return(t, "start", "Err", "Server binary not found", None, spawned + 1)
                /\ UNCHANGED <<poisoned, child, listener, listened, untracked, status>>

\* if !server_binary.exists() { return Err("Server binary not found at: ...") }
StartExists(t) ==
    /\ pc[t] = "start_exists"
    /\ \E exists \in BOOLEAN :
         IF exists
           THEN /\ pc' = [pc EXCEPT ![t] = "start_spawn"]
                /\ UNCHANGED <<process, lockHolder, poisoned, child, alive, spawned,
                               listener, listened, untracked, closed, closing, lastOp,
                               prevOp, status>>
           ELSE /\ Return(t, "start", "Err", "Server binary not found", None, process)
                /\ UNCHANGED <<process, poisoned, child, alive, spawned, listener,
                               listened, untracked, status>>

\* Command::new(&server_binary)...spawn().map_err("Failed to start server ...")?
StartSpawn(t) ==
    /\ pc[t] = "start_spawn"
    /\ \E accepted \in BOOLEAN :
         IF accepted /\ spawned < MaxSpawn
           THEN /\ spawned' = spawned + 1
                /\ alive' = alive \cup {spawned + 1}
                /\ child' = [child EXCEPT ![t] = spawned + 1]
                /\ pc' = [pc EXCEPT ![t] = "start_record"]
                /\ UNCHANGED <<process, lockHolder, poisoned, listener, listened,
                               untracked, closed, closing, lastOp, prevOp, status>>
           ELSE /\ Return(t, "start", "Err", "Failed to start server", None, process)
                /\ UNCHANGED <<process, poisoned, child, alive, spawned, listener,
                               listened, untracked, status>>

\* *process = Some(child);
StartRecord(t) ==
    /\ pc[t] = "start_record"
    /\ process' = child[t]
    /\ pc' = [pc EXCEPT ![t] = "start_sleep"]
    /\ UNCHANGED <<lockHolder, poisoned, child, alive, spawned, listener, listened,
                   untracked, closed, closing, lastOp, prevOp, status>>

\* thread::sleep(3 s); Ok("Server started on port 3005")
StartSleep(t) ==
    /\ pc[t] = "start_sleep"
    /\ Return(t, "start", "Ok", "Server started on port 3005", child[t], process)
    /\ child' = [child EXCEPT ![t] = None]
    /\ UNCHANGED <<process, poisoned, alive, spawned, listener, listened, untracked,
                   status>>

\* ------------------------------------------------------- stop_backend_server
\* StopLock without mutual exclusion: the guard is taken while another thread
\* holds it.
StopLockNoWait(t) ==
    /\ pc[t] = "stop_lock"
    /\ lockHolder' = t
    /\ pc' = [pc EXCEPT ![t] = "stop_take"]
    /\ UNCHANGED <<process, poisoned, child, alive, spawned, listener,
                   listened, untracked, closed, closing, lastOp, prevOp, status>>

\* let mut process = state.process.lock().unwrap();
StopLock(t) ==
    /\ pc[t] = "stop_lock"
    /\ lockHolder = Free
    /\ IF poisoned
         THEN /\ Panic(t, "stop")
              /\ UNCHANGED <<process, child, alive, spawned, listener, listened,
                             untracked, status>>
         ELSE /\ lockHolder' = t
              /\ pc' = [pc EXCEPT ![t] = "stop_take"]
              /\ UNCHANGED <<process, poisoned, child, alive, spawned, listener,
                             listened, untracked, closed, closing, lastOp, prevOp, status>>

\* StopTake that reads the record without take(): the record stays set.
StopPeek(t) ==
    /\ pc[t] = "stop_take"
    /\ IF process # None
         THEN /\ child' = [child EXCEPT ![t] = process]
              /\ pc' = [pc EXCEPT ![t] = "stop_kill"]
              /\ UNCHANGED <<process, untracked, lockHolder, poisoned, alive, spawned,
                             listener, listened, closed, closing, lastOp, prevOp, status>>
         ELSE /\ Return(t, "stop", "Ok", "Server not running", None, process)
              /\ UNCHANGED <<process, poisoned, child, alive, spawned, listener,
                             listened, untracked, status>>

\* if let Some(mut child) = process.take() { ... } else { Ok("Server not running") }
StopTake(t) ==
    /\ pc[t] = "stop_take"
    /\ IF process # None
         THEN /\ child' = [child EXCEPT ![t] = process]
              /\ process' = None
              /\ untracked' = untracked \cup {process}
              /\ pc' = [pc EXCEPT ![t] = "stop_kill"]
              /\ UNCHANGED <<lockHolder, poisoned, alive, spawned, listener, listened,
                             closed, closing, lastOp, prevOp, status>>
         ELSE /\ Return(t, "stop", "Ok", "Server not running", None, process)
              /\ UNCHANGED <<process, poisoned, child, alive, spawned, listener,
                             listened, untracked, status>>

\* StopKill that puts the handle back into the record when kill() fails.
StopKillRestore(t) ==
    /\ pc[t] = "stop_kill"
    /\ \E killed \in BOOLEAN :
         IF killed
           THEN /\ alive' = alive \ {child[t]}
                /\ listener' = IF listener = child[t] THEN None ELSE listener
                /\ Return(t, "stop", "Ok", "Server stopped", child[t], process)
                /\ UNCHANGED <<process, untracked>>
           ELSE /\ process' = child[t]
                /\ untracked' = untracked \ {child[t]}
                /\ Return(t, "stop", "Err", "Failed to stop server", child[t], child[t])
                /\ UNCHANGED <<alive, listener>>
    /\ child' = [child EXCEPT ![t] = None]
    /\ UNCHANGED <<poisoned, spawned, listened, status>>

\* child.kill().map_err("Failed to stop server: ...")?; Ok("Server stopped")
StopKill(t) ==
    /\ pc[t] = "stop_kill"
    /\ \E killed \in BOOLEAN :
         IF killed
           THEN /\ alive' = alive \ {child[t]}
                /\ listener' = IF listener = child[t] THEN None ELSE listener
                /\ Return(t, "stop", "Ok", "Server stopped", child[t], process)
           ELSE /\ Return(t, "stop", "Err", "Failed to stop server", child[t], process)
                /\ UNCHANGED <<alive, listener>>
    /\ child' = [child EXCEPT ![t] = None]
    /\ UNCHANGED <<process, poisoned, spawned, listened, untracked, status>>

\* ------------------------------------------------------- check_server_status
\* curl -s <url>: exit code 0 once any HTTP response was received (no --fail),
\* 7 when the connection is refused.
CurlExit(resp) == IF resp = Refused THEN 7 ELSE 0

\* Command::new("curl")...output().map_err("Failed to check server")?;
\* Ok(output.status.success())
check_server_status_result(curlRan, resp) ==
    IF ~curlRan
      THEN [resp |-> Refused, kind |-> "Err", val |-> FALSE]
      ELSE [resp |-> resp, kind |-> "Ok", val |-> (CurlExit(resp) = 0)]

\* What the endpoint answers right now.
Responses == IF listener = None THEN {Refused} ELSE HttpStatuses

\* check_server_status that takes State<ServerState> and locks the record
\* before probing.
check_server_status_locked(t) ==
    /\ t \in Workers /\ HostRunning /\ pc[t] = "idle"
    /\ lockHolder = Free /\ ~poisoned
    /\ \E curlRan \in BOOLEAN, resp \in Responses :
         status' = check_server_status_result(curlRan, resp)
    /\ UNCHANGED <<process, lockHolder, poisoned, pc, child, alive, spawned, listener,
                   listened, untracked, closed, closing, lastOp, prevOp>>

check_server_status(t) ==
    /\ t \in Workers /\ HostRunning /\ pc[t] = "idle"
    /\ \E curlRan \in BOOLEAN, resp \in Responses :
         status' = check_server_status_result(curlRan, resp)
    /\ UNCHANGED <<process, lockHolder, poisoned, pc, child, alive, spawned, listener,
                   listened, untracked, closed, closing, lastOp, prevOp>>

\* ------------------------------------------------------------ the backend
\* The spawned server binds PORT=3005 and answers on it.
BackendListen(p) ==
    /\ p \in alive /\ listener = None
    /\ listener' = p
    /\ listened' = listened \cup {p}
    /\ UNCHANGED <<process, lockHolder, poisoned, pc, child, alive, spawned,
                   untracked, closed, closing, lastOp, prevOp, status>>

\* The spawned server exits on its own.
BackendExit(p) ==
    /\ p \in alive
    /\ alive' = alive \ {p}
    /\ listener' = IF listener = p THEN None ELSE listener
    /\ UNCHANGED <<process, lockHolder, poisoned, pc, child, spawned, listened,
                   untracked, closed, closing, lastOp, prevOp, status>>

\* ------------------------------------------------------- polling variant
\* desktop/rust-templates/src/main.rs. Times are in milliseconds.
\* let timeout = Duration::from_secs(30)
timeout == 30000
\* thread::sleep(Duration::from_millis(500)) between two rounds
PollInterval == 500
\* .timeout(Duration::from_secs(1)) of one request
RequestTimeout == 1000

\* let ports = vec![8080, 7500, 5000, 3000]
ports == <<8080, 7500, 5000, 3000>>
PortSet == {ports[i] : i \in 1..Len(ports)}

VARIABLES
    bpc,            \* position of the thread started by thread::spawn
    hpc,            \* position of the main thread
    backend_ready,  \* the AtomicBool shared by the two threads
    node,           \* the child of Command::new("node"): "none", "alive", "exited"
    nodePort,       \* the port the child answers on, or None
    attempts,       \* spawn() calls made
    elapsed,        \* start_time.elapsed(), as the polling thread accumulates it
    portIdx,        \* position of `for port in &ports`
    backend_found,  \* the loop's local flag
    pollResult,     \* what the loop ended with: "none", "ready", "timeout"
    response        \* what the last send() came back with: a status, or Refused

pollVars == <<bpc, hpc, backend_ready, node, nodePort, attempts, elapsed, portIdx,
              backend_found, pollResult, response>>

\* let backend_ready = Arc::new(AtomicBool::new(false)); thread::spawn(...)
PollInit ==
    /\ bpc = "locate"
    /\ hpc = "load"
    /\ backend_ready = FALSE
    /\ node = "none"
    /\ nodePort = None
    /\ attempts = 0
    /\ elapsed = 0
    /\ portIdx = 1
    /\ backend_found = FALSE
    /\ pollResult = "none"
    /\ response = Refused

\* backend_path.exists(); when it does not, `npm run build` is run and its
\* outcome only printed: the thread goes on to spawn either way.
Locate ==
    /\ bpc = "locate"
    /\ bpc' = "spawn"
    /\ UNCHANGED <<hpc, backend_ready, node, nodePort, attempts, elapsed, portIdx,
                   backend_found, pollResult, response>>

\* Command::new("node")...spawn().expect("Failed to start backend server")
SpawnNode ==
    /\ bpc = "spawn"
    /\ attempts' = attempts + 1
    /\ \E accepted \in BOOLEAN :
         IF accepted
           THEN node' = "alive" /\ bpc' = "request"
           ELSE node' = node /\ bpc' = "panicked"
    /\ UNCHANGED <<hpc, backend_ready, nodePort, elapsed, portIdx, backend_found,
                   pollResult, response>>

\* What a GET to `port` can come back with, and after how long: an HTTP status
\* from the child when it answers there, else Refused (send() returned Err).
Answers(port) ==
    IF node = "alive" /\ nodePort = port
      THEN {200, 503}
      ELSE {Refused}

\* How long one request can take: at once, half its timeout, its whole timeout.
Durations == {0, RequestTimeout \div 2, RequestTimeout}

\* response.status().is_success()
is_success(code) == code >= 200 /\ code <= 299

\* One pass of the body of `for port in &ports`.
PollRequest ==
    /\ bpc = "request"
    /\ \E resp \in Answers(ports[portIdx]), d \in Durations :
         /\ elapsed' = elapsed + d
         /\ response' = resp
         /\ IF resp # Refused /\ is_success(resp)
              THEN /\ backend_ready' = TRUE
                   /\ backend_found' = TRUE
                   /\ bpc' = "after_for"
                   /\ portIdx' = portIdx
              ELSE /\ UNCHANGED <<backend_ready, backend_found>>
                   /\ IF portIdx < Len(ports)
                        THEN portIdx' = portIdx + 1 /\ bpc' = bpc
                        ELSE portIdx' = portIdx /\ bpc' = "after_for"
    /\ UNCHANGED <<hpc, node, nodePort, attempts, pollResult>>

\* PollAfter that kills the child when the timeout is reached.
PollAfterKills ==
    /\ bpc = "after_for"
    /\ IF backend_found
         THEN bpc' = "wait" /\ pollResult' = "ready" /\ UNCHANGED <<node, nodePort>>
         ELSE IF elapsed > timeout
                THEN /\ bpc' = "wait" /\ pollResult' = "timeout"
                     /\ node' = "exited" /\ nodePort' = None
                ELSE /\ bpc' = "sleep" /\ pollResult' = pollResult
                     /\ UNCHANGED <<node, nodePort>>
    /\ UNCHANGED <<hpc, backend_ready, attempts, elapsed, portIdx, backend_found,
                   response>>

\* if backend_found { break } if start_time.elapsed() > timeout { break }
PollAfter ==
    /\ bpc = "after_for"
    /\ IF backend_found
         THEN bpc' = "wait" /\ pollResult' = "ready"
         ELSE IF elapsed > timeout
                THEN bpc' = "wait" /\ pollResult' = "timeout"
                ELSE bpc' = "sleep" /\ pollResult' = pollResult
    /\ UNCHANGED <<hpc, backend_ready, node, nodePort, attempts, elapsed, portIdx,
                   backend_found, response>>

\* PollSleep with start_time taken anew in every round: the elapsed time the
\* timeout test sees starts from zero again.
PollSleepResetsClock ==
    /\ bpc = "sleep"
    /\ elapsed' = 0
    /\ portIdx' = 1
    /\ backend_found' = FALSE
    /\ bpc' = "request"
    /\ UNCHANGED <<hpc, backend_ready, node, nodePort, attempts, pollResult, response>>

\* thread::sleep(500 ms), then the next round of the loop
PollSleep ==
    /\ bpc = "sleep"
    /\ elapsed' = elapsed + PollInterval
    /\ portIdx' = 1
    /\ backend_found' = FALSE
    /\ bpc' = "request"
    /\ UNCHANGED <<hpc, backend_ready, node, nodePort, attempts, pollResult, response>>

\* let _ = child.wait();
ChildWait ==
    /\ bpc = "wait"
    /\ node = "exited"
    /\ bpc' = "done"
    /\ UNCHANGED <<hpc, backend_ready, node, nodePort, attempts, elapsed, portIdx,
                   backend_found, pollResult, response>>

\* HostLoad that also stops waiting once the poll has timed out.
HostLoadGivesUp ==
    /\ hpc = "load"
    /\ hpc' = IF backend_ready \/ pollResult = "timeout" THEN "gui" ELSE "sleep"
    /\ UNCHANGED <<bpc, backend_ready, node, nodePort, attempts, elapsed, portIdx,
                   backend_found, pollResult, response>>

\* while !backend_ready.load(Relaxed) { thread::sleep(100 ms) }
HostLoad ==
    /\ hpc = "load"
    /\ hpc' = IF backend_ready THEN "gui" ELSE "sleep"
    /\ UNCHANGED <<bpc, backend_ready, node, nodePort, attempts, elapsed, portIdx,
                   backend_found, pollResult, response>>

HostSleep ==
    /\ hpc = "sleep"
    /\ hpc' = "load"
    /\ UNCHANGED <<bpc, backend_ready, node, nodePort, attempts, elapsed, portIdx,
                   backend_found, pollResult, response>>

\* The node child starts answering the health endpoint on one of the ports.
NodeListen(port) ==
    /\ node = "alive" /\ nodePort = None
    /\ nodePort' = port
    /\ UNCHANGED <<bpc, hpc, backend_ready, node, attempts, elapsed, portIdx,
                   backend_found, pollResult, response>>

\* The node child exits on its own.
NodeExit ==
    /\ node = "alive"
    /\ node' = "exited"
    /\ nodePort' = None
    /\ UNCHANGED <<bpc, hpc, backend_ready, attempts, elapsed, portIdx,
                   backend_found, pollResult, response>>

PollThread == Locate \/ SpawnNode \/ PollRequest \/ PollAfter \/ PollSleep \/ ChildWait
HostThread == HostLoad \/ HostSleep

vars == <<cmdVars, pollVars>>

Init == CmdInit /\ PollInit

\* The command variant.
Next ==
    \/ Setup /\ UNCHANGED pollVars
    \/ CloseRequested /\ UNCHANGED pollVars
    \/ \E t \in Threads :
         \/ InvokeStart(t) /\ UNCHANGED pollVars
         \/ InvokeStop(t) /\ UNCHANGED pollVars
         \/ StartLock(t) /\ UNCHANGED pollVars
         \/ StartCheck(t) /\ UNCHANGED pollVars
         \/ StartResolve(t) /\ UNCHANGED pollVars
         \/ StartExists(t) /\ UNCHANGED pollVars
         \/ StartSpawn(t) /\ UNCHANGED pollVars
         \/ StartRecord(t) /\ UNCHANGED pollVars
         \/ StartSleep(t) /\ UNCHANGED pollVars
         \/ StopLock(t) /\ UNCHANGED pollVars
         \/ StopTake(t) /\ UNCHANGED pollVars
         \/ StopKill(t) /\ UNCHANGED pollVars
         \/ check_server_status(t) /\ UNCHANGED pollVars
    \/ \E p \in Pids :
         \/ BackendListen(p) /\ UNCHANGED pollVars
         \/ BackendExit(p) /\ UNCHANGED pollVars

Spec == Init /\ [][Next]_vars

\* The polling variant.
PollNext ==
    \/ Locate /\ UNCHANGED cmdVars
    \/ SpawnNode /\ UNCHANGED cmdVars
    \/ PollRequest /\ UNCHANGED cmdVars
    \/ PollAfter /\ UNCHANGED cmdVars
    \/ PollSleep /\ UNCHANGED cmdVars
    \/ ChildWait /\ UNCHANGED cmdVars
    \/ HostLoad /\ UNCHANGED cmdVars
    \/ HostSleep /\ UNCHANGED cmdVars
    \/ NodeExit /\ UNCHANGED cmdVars
    \/ \E port \in PortSet : NodeListen(port) /\ UNCHANGED cmdVars

PollSpec == Init /\ [][PollNext]_vars

\* Both threads are scheduled: a thread that can take a step eventually takes it.
\* Nothing makes the node child exit or listen.
PollFair ==
    /\ PollSpec
    /\ WF_vars(PollThread /\ UNCHANGED cmdVars)
    /\ WF_vars(HostThread /\ UNCHANGED cmdVars)

\* ================================================================= claims

\* Pids created by spawn() and not taken out of the record by a stop.
Kept == (1..spawned) \ untracked

\* A thread between lock() and the drop of its guard.
InCritical(t) ==
    pc[t] \in {"start_check", "start_resolve", "start_exists", "start_spawn",
               "start_record", "start_sleep", "stop_take", "stop_kill"}

\* C1: in every reachable state at most one backend process spawned by the
\* supervisor is alive.
C1_AtMostOneAlive == Cardinality(alive) <= 1

\* C2: a start_backend_server() that follows a successful start_backend_server()
\* with no stop between them returns Ok("Server already running"), spawns
\* nothing and leaves the record as the first call left it.
C2_StartIdempotent ==
    (lastOp.op = "start" /\ prevOp.op = "start" /\ prevOp.kind = "Ok")
      => /\ lastOp.kind = "Ok"
         /\ lastOp.msg = "Server already running"
         /\ lastOp.pid = None
         /\ lastOp.rec = prevOp.rec
         /\ lastOp.rec # None

\* Two starts in succession have returned, the first one having spawned the
\* only process.
C2_Witness ==
    /\ lastOp.op = "start" /\ lastOp.msg = "Server already running"
    /\ prevOp.op = "start" /\ prevOp.kind = "Ok"
    /\ spawned = 1 /\ process = 1

\* C3: the record lock is held from lock() to return by at most one thread, so
\* concurrent start_backend_server() calls never leave two spawned processes
\* that no stop has taken: the is_some() test and the recording are not
\* separated by another operation.
C3_LockSerializesStarts ==
    /\ \A t1, t2 \in Threads : (InCritical(t1) /\ InCritical(t2)) => t1 = t2
    /\ \A t \in Threads : InCritical(t) => lockHolder = t
    /\ Cardinality(Kept) <= 1

\* The start of setup holds the lock after spawning, in its 3 s sleep, while a
\* start invoked from the webview waits for the lock.
C3_Witness ==
    \E t \in Workers : pc[Main] = "start_sleep" /\ pc[t] = "start_lock"

\* C4: a start that reports the missing binary returns Err, has spawned no
\* process and leaves the record empty.
C4_BinaryNotFound ==
    lastOp.msg = "Server binary not found"
      => /\ lastOp.kind = "Err"
         /\ lastOp.pid = None
         /\ lastOp.rec = None
         /\ lockHolder = Free => (process = None /\ Kept = {})

\* A start has just returned the binary-not-found error, after an earlier
\* start/stop pair.
C4_Witness ==
    /\ lastOp.msg = "Server binary not found"
    /\ lockHolder = Free
    /\ spawned = 1

\* C5: when start() has spawned the binary and the backend never opened its
\* health port, start() reports failure, the record is empty and
\* check_server_status() answers false.
C5_NoHealthPortStartFails ==
    (lastOp.op = "start" /\ lastOp.pid # None /\ lastOp.pid \notin listened
       /\ lockHolder = Free)
      => /\ lastOp.kind = "Err"
         /\ process = None
         /\ \A r \in Responses : ~check_server_status_result(TRUE, r).val

\* C6: a stop_backend_server() that follows a stop_backend_server() that
\* returned (Ok or the kill error), with no start between them, returns
\* Ok("Server not running").
C6_StopTwice ==
    (lastOp.op = "stop" /\ prevOp.op = "stop" /\ prevOp.kind \in {"Ok", "Err"})
      => /\ lastOp.kind = "Ok"
         /\ lastOp.msg = "Server not running"

\* The first stop's kill failed and the second stop has returned.
C6_Witness ==
    /\ prevOp.op = "stop" /\ prevOp.kind = "Err"
    /\ lastOp.op = "stop" /\ lastOp.msg = "Server not running"

\* C7: the record is cleared when the recorded process exits, so a start
\* never answers "Server already running" about a process that has exited.
C7_RecordClearedOnExit ==
    (lastOp.op = "start" /\ lastOp.msg = "Server already running") => lastOp.live

\* The polling variant's start has failed: spawn() was rejected or the poll
\* loop ran into its timeout.
PollFailed == bpc = "panicked" \/ pollResult = "timeout"

\* C8: a failed start is not retried, and the main thread waiting for
\* readiness eventually stops waiting.
C8_FailedStartSurfaced ==
    /\ [](attempts <= 1)
    /\ PollFailed ~> (hpc \notin {"load", "sleep"})

\* C9: no failure of start or stop is a panic: every one is returned as an Err
\* string, the mutex stays usable, and once the failing call has returned the
\* record is empty or holds a live process.
C9_FailuresNotFatal ==
    /\ \A t \in Threads : pc[t] # "panicked"
    /\ ~poisoned
    /\ lastOp.kind # "panic"
    /\ (lastOp.kind = "Err" /\ lockHolder = Free)
         => (process = None \/ process \in alive)

\* C10: check_server_status() returns Ok(true) exactly when the endpoint
\* answered with a 2xx status.
C10_StatusTrueIffSuccess ==
    status.kind = "Ok"
      => (status.val <=> (status.resp # Refused /\ is_success(status.resp)))

\* The polling thread is inside `loop { ... }`.
InPollLoop == bpc \in {"request", "after_for", "sleep"}

\* C11: the health-polling loop always terminates: once entered, it is
\* eventually left with success or with the timeout failure, whatever the
\* backend does.
C11_PollLoopTerminates == InPollLoop ~> (~InPollLoop /\ pollResult \in {"ready", "timeout"})

\* The loop was left by its timeout although the child was alive and answering
\* (with a non-2xx status) the whole time.
C11_Witness ==
    /\ pollResult = "timeout" /\ bpc = "wait"
    /\ node = "alive" /\ nodePort # None

\* C12: the polling loop ends no later than its timeout plus one poll interval
\* after it began.
C12_PollWithinTimeoutPlusInterval ==
    pollResult # "none" => elapsed <= timeout + PollInterval

\* C13: the CloseRequested handler runs stop_backend_server: when the close
\* has been handled the record is empty, the call was a stop that returned (Ok
\* or Err: an error does not keep the window open), and a process that was
\* recorded was taken and handed to kill().
C13_CloseStopsBackend ==
    [][(~closed /\ closed')
         => /\ process' = None
            /\ lastOp'.op = "stop"
            /\ lastOp'.kind \in {"Ok", "Err"}
            /\ lastOp'.rec = None
            /\ (process # None \/ child[Main] # None)
                 => (lastOp'.pid # None /\ lastOp'.pid \in untracked')]_vars

\* The window has closed although the kill of the recorded process failed.
C13_Witness ==
    /\ closed
    /\ lastOp.op = "stop" /\ lastOp.kind = "Err" /\ lastOp.pid \in alive
    /\ process = None

\* C14: check_server_status is an external probe: a webview thread can run it
\* whoever holds the record lock, it changes nothing of the record, the lock
\* or any thread's position, and its Ok value is decided by the endpoint's
\* answer alone.
C14_StatusIsExternalProbe ==
    /\ [](\A t \in Workers :
            (HostRunning /\ pc[t] = "idle") => ENABLED check_server_status(t))
    /\ [][status' # status
            => /\ UNCHANGED <<process, lockHolder, poisoned, pc, child, untracked>>
               /\ status'.kind = "Ok" => (status'.val <=> status'.resp # Refused)]_vars

\* A probe got an HTTP answer while the start of setup, which spawned the
\* answering process, still held the lock: no start or stop has returned yet.
C14_Witness ==
    /\ status.kind = "Ok" /\ status.resp \in HttpStatuses
    /\ lockHolder = Main
    /\ lastOp = NoOp

\* C15: a stop_backend_server that returns, with Ok or with the kill error,
\* leaves the record empty; after a failed kill the process it took is no
\* longer tracked.
C15_StopClearsRecord ==
    (lastOp.op = "stop" /\ lastOp.kind \in {"Ok", "Err"})
      => /\ lastOp.rec = None
         /\ lockHolder = Free => process = None
         /\ lastOp.pid # None => (lastOp.pid \in untracked /\ process # lastOp.pid)

\* The kill failed: the stop returned its error, the record is empty and the
\* process that was recorded still runs.
C15_Witness ==
    /\ lastOp.op = "stop" /\ lastOp.kind = "Err"
    /\ lastOp.msg = "Failed to stop server"
    /\ lastOp.pid \in alive
    /\ process = None /\ lockHolder = Free

\* C16: in the polling variant backend_ready is set only by a 2xx answer,
\* which ends the loop at once with success; the ports are tried in their
\* order, the next one only after a non-2xx answer; the timeout ends the loop
\* with the flag still false and leaves the child as it is, only waited on.
C16_ReadyOnlyBySuccess ==
    /\ [](backend_ready => is_success(response))
    /\ [](pollResult = "ready" => (backend_ready /\ is_success(response)))
    /\ [](pollResult = "timeout" => ~backend_ready)
    /\ [][(~backend_ready /\ backend_ready')
            => (bpc = "request" /\ is_success(response') /\ backend_found'
                /\ bpc' = "after_for")]_vars
    /\ [][portIdx' # portIdx
            => \/ (bpc = "request" /\ portIdx' = portIdx + 1 /\ ~is_success(response'))
               \/ (bpc = "sleep" /\ portIdx' = 1)]_vars
    /\ [][(pollResult = "none" /\ pollResult' = "timeout")
            => (node' = node /\ nodePort' = nodePort /\ bpc' = "wait")]_vars

\* The loop has timed out and the child it spawned is still alive, the thread
\* blocked in child.wait().
C16_Witness ==
    /\ pollResult = "timeout" /\ ~backend_ready
    /\ node = "alive" /\ bpc = "wait"

\* C17: the readiness wait does not run on the thread of the GUI event loop,
\* and a stop issued while a start waits for readiness can go ahead before
\* that wait ends.
C17_ReadinessWaitOffGuiThread ==
    /\ pc[Main] # "start_sleep"
    /\ \A t, u \in Threads :
         (pc[u] = "start_sleep" /\ pc[t] = "stop_lock") => ENABLED StopLock(t)

\* C18: the record changes only from empty to the child a start has just
\* spawned and from set to empty by the take() of a stop; a start that
\* succeeds right after a stop has spawned a fresh process and recorded it.
C18_Restartable ==
    /\ [][process' # process
            => \/ /\ process = None
                  /\ \E t \in Threads : pc[t] = "start_record" /\ process' = child[t]
                  /\ process' = spawned
               \/ /\ process # None /\ process' = None
                  /\ \E t \in Threads : pc[t] = "stop_take" /\ pc'[t] = "stop_kill"]_vars
    /\ []((prevOp.op = "stop" /\ prevOp.kind \in {"Ok", "Err"}
           /\ lastOp.op = "start" /\ lastOp.kind = "Ok")
            => /\ lastOp.msg = "Server started on port 3005"
               /\ lastOp.pid # None
               /\ lastOp.rec = lastOp.pid
               /\ lastOp.pid = spawned)

\* Idle -> Running -> Idle -> Running: the second process is recorded after
\* the first one was stopped.
C18_Witness ==
    /\ prevOp.op = "stop" /\ prevOp.kind = "Ok"
    /\ lastOp.op = "start" /\ lastOp.msg = "Server started on port 3005"
    /\ untracked = {1} /\ process = 2 /\ lockHolder = Free

\* C19: whenever the lock is free the record holds exactly the process that
\* was spawned and not taken by a stop, if there is one; a stop that arrives
\* while the lock is held cannot go ahead, and the stop that follows a
\* successful start takes the process that start left in the record and hands
\* it to kill().
C19_RecordMatchesSpawned ==
    /\ lockHolder = Free => Kept = (IF process = None THEN {} ELSE {process})
    /\ \A t \in Threads :
         (pc[t] = "stop_lock" /\ lockHolder # Free) => ~ENABLED StopLock(t)
    /\ (lastOp.op = "stop" /\ prevOp.op = "start" /\ prevOp.kind = "Ok")
         => /\ lastOp.pid = prevOp.rec
            /\ lastOp.pid # None
            /\ lastOp.msg \in {"Server stopped", "Failed to stop server"}

\* A stop invoked from the webview waits for the lock while the start of setup
\* sleeps its 3 s with the process recorded.
C19_Witness ==
    \E t \in Workers :
      /\ pc[t] = "stop_lock" /\ pc[Main] = "start_sleep"
      /\ process # None /\ lockHolder = Main

\* C20: the GUI is launched only with backend_ready true; the flag is never
\* reset once set, and it is false as long as no 2xx answer has come back.
C20_GuiOnlyWhenReady ==
    /\ [](hpc = "gui" => backend_ready)
    /\ [][backend_ready => backend_ready']_vars
    /\ [](~is_success(response) => ~backend_ready)

\* The GUI runs, the flag is still set, and the child has exited since.
C20_Witness ==
    /\ hpc = "gui" /\ backend_ready
    /\ node = "exited"

====
